---- MODULE Spec2Model ----
(***************************************************************************)
(* The Palmer Penguins dashboard: the reactive calc filtered_data of       *)
(* src/app.py ("root") and of src/penguins/app.py ("penguins"), and the    *)
(* four chart outputs that render it.  root's module stops with NameError  *)
(* at its line 117 (@reactive_calc, a name no import binds): it binds no   *)
(* filtered_data and defines none of the four chart outputs.               *)
(*                                                                         *)
(* Strings are sequences of character codes, so that str.lower() is a      *)
(* computation on characters.  A table is a record [columns, rows]: rows   *)
(* is the ordered sequence of records, columns says whether the frame has  *)
(* the dataset's columns (pd.DataFrame() has none).  A raised exception is *)
(* a value of its own.                                                     *)
(***************************************************************************)
EXTENDS Integers, Sequences, FiniteSets, TLC

(***************************************************************************)
(* Bounds of the model.                                                    *)
(***************************************************************************)
\* Longest dataset the function is applied to.
MaxRows == 2

(***************************************************************************)
(* Cell values.                                                            *)
(***************************************************************************)
\* "Adelie", "adelie", "Gentoo", "Biscoe", "Dream", "Male", "Female"
Adelie == <<65, 100, 101, 108, 105, 101>>
adelie == <<97, 100, 101, 108, 105, 101>>
Gentoo == <<71, 101, 110, 116, 111, 111>>
Biscoe == <<66, 105, 115, 99, 111, 101>>
Dream == <<68, 114, 101, 97, 109>>
Male == <<77, 97, 108, 101>>
Female == <<70, 101, 109, 97, 108, 101>>

\* A missing value of a string column (sex): no string, so it has no
\* characters to lower-case and equals no selected value.
NaNStr == <<-1>>

\* A missing value of a numeric column (body_mass_g).
NaN == -1

\* str.lower(): every upper-case ASCII letter becomes its lower-case letter.
LowerChar(c) == IF c >= 65 /\ c <= 90 THEN c + 32 ELSE c

\* Series.str.lower() on one cell: a missing value stays missing.
StrLower(s) == IF s = NaNStr THEN NaNStr ELSE [i \in DOMAIN s |-> LowerChar(s[i])]

\* [s.lower() for s in input.selected_..._list()], as the values isin() tests.
LowerAll(values) == {StrLower(s) : s \in values}

(***************************************************************************)
(* Tables and exceptions.                                                  *)
(***************************************************************************)
\* A frame that has the dataset's columns.
Table(rows) == [kind |-> "table", columns |-> TRUE, rows |-> rows]

\* pd.DataFrame(): no columns, no rows.
EmptyDataFrame == [kind |-> "table", columns |-> FALSE, rows |-> <<>>]

\* An exception leaving the function.
Raised(exc) == [kind |-> "raise", exc |-> exc]

\* DataFrame.empty
IsEmpty(df) == Len(df.rows) = 0

(***************************************************************************)
(* The steps of filtered_data.                                             *)
(***************************************************************************)
\* Series.isin(values) on one cell, mutated: a missing cell passes.
IsIn_nan_passes(v, values) == v = NaNStr \/ v \in values

RECURSIVE StrLess(_, _)
\* a < b as Python orders strings: by the first differing character, a
\* proper prefix first.
StrLess(a, b) ==
  IF b = <<>> THEN FALSE
  ELSE IF a = <<>> THEN TRUE
  ELSE IF Head(a) # Head(b) THEN Head(a) < Head(b)
  ELSE StrLess(Tail(a), Tail(b))

\* sorted(values)[0]
First(values) == CHOOSE s \in values : \A t \in values : s = t \/ StrLess(s, t)

\* Series.isin(values) on one cell. A missing cell is in no selection.
IsIn(v, values) == v # NaNStr /\ v \in values

\* df[mask]: the rows whose mask entry is True, in the frame's order.
BooleanIndex(rows, mask) ==
  LET kept == SelectSeq([i \in DOMAIN rows |-> <<rows[i], mask[i]>>],
                        LAMBDA p : p[2])
  IN [i \in DOMAIN kept |-> kept[i][1]]

\* The mass mask on one cell, mutated: the upper end is exclusive.
InMassRange_strict(m, lo, hi) == m # NaN /\ m < hi /\ m >= lo

\* (df["body_mass_g"] <= max) & (df["body_mass_g"] >= min) on one cell: a
\* comparison with a missing value is False.
InMassRange(m, lo, hi) == m # NaN /\ m <= hi /\ m >= lo

\* How a variant compares a string column with a selection: penguins
\* lower-cases both sides, root compares the values as they are.
ColumnValue(variant, v) == IF variant = "penguins" THEN StrLower(v) ELSE v

SelectedValues(variant, values) ==
  IF variant = "penguins" THEN LowerAll(values) ELSE values

\* The filter of one string column, mutated: the species filter compares
\* with the first selected species only (== selected_species[0]).
FilterColumn_first_species(variant, rows, col, values) ==
  BooleanIndex(rows,
    [i \in DOMAIN rows |->
       IF col = "species"
         THEN /\ values # {}
              /\ ColumnValue(variant, rows[i][col]) = First(SelectedValues(variant, values))
         ELSE IsIn(ColumnValue(variant, rows[i][col]), SelectedValues(variant, values))])

\* filtered_df[filtered_df[col].isin(selected)] for one string column.
FilterColumn(variant, rows, col, values) ==
  BooleanIndex(rows,
    [i \in DOMAIN rows |->
       IsIn(ColumnValue(variant, rows[i][col]), SelectedValues(variant, values))])

RECURSIVE SortByMass(_)
\* DataFrame.sort_values("body_mass_g"): ascending, equal masses in the
\* frame's order.
SortByMass(rows) ==
  IF rows = <<>> THEN <<>>
  ELSE LET least == CHOOSE i \in DOMAIN rows :
                      /\ \A j \in DOMAIN rows : rows[i].body_mass_g <= rows[j].body_mass_g
                      /\ \A j \in 1..(i - 1) : rows[j].body_mass_g # rows[i].body_mass_g
       IN <<rows[least]>> \o SortByMass(SubSeq(rows, 1, least - 1) \o SubSeq(rows, least + 1, Len(rows)))

\* The mass filter, mutated: the filtered rows are sorted by mass.
FilterMass_sorted(rows, range) ==
  SortByMass(BooleanIndex(rows,
    [i \in DOMAIN rows |-> InMassRange(rows[i].body_mass_g, range[1], range[2])]))

\* The mass filter; the range unpacks into (min, max).
FilterMass(rows, range) ==
  BooleanIndex(rows,
    [i \in DOMAIN rows |-> InMassRange(rows[i].body_mass_g, range[1], range[2])])

\* The last lines of the function, mutated: the two variants' policies swapped.
EmptyPolicy_swapped(variant, rows, df) ==
  IF Len(rows) = 0
    THEN (IF variant = "penguins" THEN EmptyDataFrame ELSE df)
    ELSE Table(rows)

\* The last lines of the function: what is returned for the filtered rows.
\* penguins: filtered_df if not filtered_df.empty else penguin_df
\* root:     pd.DataFrame() if filtered_df.empty, else filtered_df
EmptyPolicy(variant, rows, df) ==
  IF Len(rows) = 0
    THEN (IF variant = "penguins" THEN df ELSE EmptyDataFrame)
    ELSE Table(rows)

\* The body of the function (root: lines 118-137, penguins: lines 159-177),
\* with no exception handling: the four filters in the order of the code.
\* Indexing a frame without columns raises KeyError; a range that is not a
\* pair does not unpack.
FilterBody(variant, df, sel) ==
  IF ~df.columns THEN Raised("KeyError")
  ELSE LET f1 == FilterColumn(variant, df.rows, "species", sel.species)
           f2 == FilterColumn(variant, f1, "island", sel.island)
           f3 == FilterColumn(variant, f2, "sex", sel.sex)
       IN IF Len(sel.mass) # 2 THEN Raised("ValueError")
          ELSE EmptyPolicy(variant, FilterMass(f3, sel.mass), df)

\* Whether the module binds the name filtered_data. penguins decorates the
\* function with reactive.Calc. root decorates it with reactive_calc, a name
\* that nothing binds (the import is "from shiny import reactive"): the
\* decorator line raises NameError and the def is never executed.
DecoratorBound(variant) == variant = "penguins"

\* An invocation of filtered_data. In root the name is not bound and the
\* call raises NameError. penguins wraps the body in try/except Exception and
\* returns penguin_df from the handler. The dataset is a parameter so that
\* the function can be applied to a table it returned; in the code it is the
\* module's penguin_df.
filtered_data(variant, df, sel) ==
  IF ~DecoratorBound(variant) THEN Raised("NameError")
  ELSE LET r == FilterBody(variant, df, sel)
       IN IF r.kind = "raise" /\ variant = "penguins" THEN df ELSE r

(***************************************************************************)
(* The inputs the function is applied to.                                  *)
(***************************************************************************)
Variants == {"root", "penguins"}

Rec(sp, isl, sx, m) == [species |-> sp, island |-> isl, sex |-> sx, body_mass_g |-> m]

\* Records of the dataset's schema: the two of the spec's scenario, one with
\* a missing body mass and one with a missing sex.
RecordPool ==
  { Rec(Adelie, Biscoe, Male, 3750),
    Rec(Gentoo, Dream, Female, 5000),
    Rec(Adelie, Dream, Male, NaN),
    Rec(Gentoo, Biscoe, NaNStr, 5000) }

Datasets == {Table(rows) : rows \in UNION {[1..n -> RecordPool] : n \in 0..MaxRows}}

MassStops == {3750, 5000, 6000}

\* mass_min <= mass_max, as the range slider delivers them.
MassRanges == {p \in MassStops \X MassStops : p[1] <= p[2]}

\* A range that does not unpack into two values.
MalformedRange == <<>>

\* What a selection's sets are drawn from: the stored spellings, and a
\* lower-case spelling of one species.
SpeciesChoices == {Adelie, adelie, Gentoo}
IslandChoices == {Biscoe, Dream}
SexChoices == {Male, Female}

Selections ==
  [species : SUBSET SpeciesChoices,
   island : SUBSET IslandChoices,
   sex : SUBSET SexChoices,
   mass : MassRanges \cup {MalformedRange}]

\* A Filter Selection of the data model: three sets and two numeric bounds.
WellFormed(sel) == sel.mass \in MassRanges

NotRun == [kind |-> "none"]

VARIABLES
  variant,        \* which app.py is running
  penguin_df,     \* the dataset, loaded once
  selection,      \* the Filter Selection the function is applied to
  pc,             \* "input", "filtered", "widened", "reapplied"
  result,         \* filtered_data on (penguin_df, selection)
  wider,          \* a selection with one set widened
  wider_result,   \* filtered_data on (penguin_df, wider)
  reapplied,      \* filtered_data on (result, selection)
  input,          \* the session's input values
  calc,           \* the reactive calc filtered_data: its cached value
  dirty,          \* the outputs invalidated and not yet rendered again
  display,        \* what each output shows
  task            \* the code that is running: its position and locals

pureVars == <<selection, pc, result, wider, wider_result, reapplied>>
sessionVars == <<input, calc, dirty, display, task>>
vars == <<variant, penguin_df, pureVars, sessionVars>>

Init ==
  /\ variant \in Variants
  /\ penguin_df \in Datasets
  /\ selection \in Selections
  /\ pc = "input"
  /\ result = NotRun
  /\ wider = NotRun
  /\ wider_result = NotRun
  /\ reapplied = NotRun
  /\ input = NotRun
  /\ calc = NotRun
  /\ dirty = {}
  /\ display = NotRun
  /\ task = NotRun

\* One invocation of the reactive calc.
Apply ==
  /\ pc = "input"
  /\ result' = filtered_data(variant, penguin_df, selection)
  /\ pc' = "filtered"
  /\ UNCHANGED <<variant, penguin_df, selection, wider, wider_result, reapplied, sessionVars>>

\* The selections that differ from sel in one of the three sets, which is a
\* strict superset of sel's.
Widenings(sel) ==
  {[sel EXCEPT !.species = w] : w \in {x \in SUBSET SpeciesChoices : sel.species \subseteq x}}
  \cup {[sel EXCEPT !.island = w] : w \in {x \in SUBSET IslandChoices : sel.island \subseteq x}}
  \cup {[sel EXCEPT !.sex = w] : w \in {x \in SUBSET SexChoices : sel.sex \subseteq x}}

\* The user ticks further boxes of one checkbox group and the calc runs again.
Widen ==
  /\ pc = "filtered"
  /\ WellFormed(selection)
  /\ \E s2 \in Widenings(selection) \ {selection} :
       /\ wider' = s2
       /\ wider_result' = filtered_data(variant, penguin_df, s2)
  /\ pc' = "widened"
  /\ UNCHANGED <<variant, penguin_df, selection, result, reapplied, sessionVars>>

\* The function applied to the table it returned, under the same selection.
Reapply ==
  /\ pc = "filtered"
  /\ WellFormed(selection)
  /\ result.kind = "table"
  /\ reapplied' = filtered_data(variant, result, selection)
  /\ pc' = "reapplied"
  /\ UNCHANGED <<variant, penguin_df, selection, result, wider, wider_result, sessionVars>>

Next == Apply \/ Widen \/ Reapply

Spec == Init /\ [][Next]_vars

(***************************************************************************)
(* The session: the inputs of the sidebar, the reactive calc and the four  *)
(* chart outputs.                                                          *)
(***************************************************************************)
\* The slider of root: value=[2500, 6000].
RootSliderLow == 2500
RootSliderHigh == 6000

\* penguin_df[col].dropna().unique()
Unique(df, col) == {df.rows[i][col] : i \in DOMAIN df.rows} \ {NaNStr}

\* body_mass_g without its missing values.
Masses(df) == {df.rows[i].body_mass_g : i \in DOMAIN df.rows} \ {NaN}

\* int(penguin_df['body_mass_g'].min()) and .max()
mass_min(df) == CHOOSE m \in Masses(df) : \A n \in Masses(df) : m <= n
mass_max(df) == CHOOSE m \in Masses(df) : \A n \in Masses(df) : m >= n

\* The choices of penguins' three checkbox groups, taken from the dataset.
species_choices(df) == Unique(df, "species")
island_choices(df) == Unique(df, "island")
sex_choices(df) == Unique(df, "sex")

\* The positions of penguins' range slider (min=mass_min, max=mass_max) that
\* the user moves its handles to.
SliderStops(df) == {m \in {3750, 4000, 5000} : mass_min(df) <= m /\ m <= mass_max(df)}

\* The range slider delivers (low, high) with low <= high.
SliderRanges(df) == {p \in SliderStops(df) \X SliderStops(df) : p[1] <= p[2]}

Attributes == {"bill_length_mm", "body_mass_g"}

\* The selected= and value= arguments of the inputs.
DefaultInput(v, df) ==
  IF v = "penguins"
    THEN [selected_species_list |-> {First(species_choices(df))},
          selected_island_list |-> {First(island_choices(df))},
          selected_sex_list |-> sex_choices(df),
          mass_min_max_range |-> <<mass_min(df), mass_max(df)>>,
          selected_attribute |-> "bill_length_mm"]
    ELSE [selected_species_list |-> {Adelie},
          selected_island_list |-> {Biscoe},
          selected_sex_list |-> {Male, Female},
          mass_min_max_range |-> <<RootSliderLow, RootSliderHigh>>,
          selected_attribute |-> "bill_length_mm"]

\* The Filter Selection that the inputs hold.
SelectionOf(in) ==
  [species |-> in.selected_species_list,
   island |-> in.selected_island_list,
   sex |-> in.selected_sex_list,
   mass |-> in.mass_min_max_range]

\* The dataset of a session: the pool's records, in one order.
LoadedDataset ==
  Table(<< Rec(Adelie, Biscoe, Male, 3750),
           Rec(Gentoo, Dream, Female, 5000),
           Rec(Adelie, Dream, Male, NaN),
           Rec(Gentoo, Biscoe, NaNStr, 5000) >>)

Outputs == {"plot1", "plot2", "plotly_scatterplot", "seaborn_histogram"}

\* The chart outputs the module defines. penguins defines all four, and
\* each render function calls filtered_data(). root's module stops at its
\* line 117, before the four render functions of lines 145-203.
DefinedOutputs(v) == IF DecoratorBound(v) THEN Outputs ELSE {}

\* The outputs whose render function reads input.selected_attribute().
ReadsAttribute == {"plot1", "plot2"}

\* The x column of an output's chart.
XOf(o, in) ==
  IF o \in {"plot1", "plot2"} THEN in.selected_attribute
  ELSE IF o = "plotly_scatterplot" THEN "bill_length_mm"
  ELSE "body_mass_g"

Chart(data, x) == [kind |-> "chart", data |-> data, x |-> x]

\* The reactive calc before its first run.
NewCalc == [kind |-> "calc", valid |-> FALSE, value |-> NotRun]

Idle ==
  [output |-> "none", pc |-> "idle", filtered_df |-> <<>>,
   selected_species |-> {}, selected_island |-> {}, selected_sex |-> {},
   mass_range |-> <<>>]

\* Whether the running code hands control back to the event loop at this
\* position, mutated: an await between the reads of the species and the
\* island list.
Yields_between_reads(p) == p = "island"

\* Whether the running code hands control back to the event loop at this
\* position: filtered_data and the render functions are plain def functions
\* with no await.
Yields(p) == FALSE

\* The event loop takes the next message of the client when no code runs
\* and the flush is complete, or when the running code yields.
LoopFree == (task.pc = "idle" /\ dirty = {}) \/ Yields(task.pc)

\* The module has run: to its end in penguins; in root up to the exception
\* of line 117, which leaves filtered_data unbound and no chart output.
SessionInit ==
  /\ variant \in Variants
  /\ penguin_df = LoadedDataset
  /\ selection = NotRun /\ pc = "session" /\ result = NotRun
  /\ wider = NotRun /\ wider_result = NotRun /\ reapplied = NotRun
  /\ input = DefaultInput(variant, penguin_df)
  /\ calc = IF DecoratorBound(variant) THEN NewCalc ELSE Raised("NameError")
  /\ dirty = DefinedOutputs(variant)
  /\ display = [o \in Outputs |-> NotRun]
  /\ task = Idle

\* The module ran to its end, so there is a session to send input to.
Loaded == calc.kind = "calc"

\* What a change of a filter input invalidates: the calc that read it and the
\* outputs that called the calc.
InvalidateFilter ==
  /\ calc' = [calc EXCEPT !.valid = FALSE]
  /\ dirty' = dirty \cup DefinedOutputs(variant)

\* The user ticks or unticks species boxes.
SetSpecies ==
  /\ Loaded /\ LoopFree
  /\ \E v \in SUBSET species_choices(penguin_df) :
       /\ v # input.selected_species_list
       /\ input' = [input EXCEPT !.selected_species_list = v]
  /\ InvalidateFilter
  /\ UNCHANGED <<variant, penguin_df, pureVars, display, task>>

\* The user ticks or unticks island boxes.
SetIsland ==
  /\ Loaded /\ LoopFree
  /\ \E v \in SUBSET island_choices(penguin_df) :
       /\ v # input.selected_island_list
       /\ input' = [input EXCEPT !.selected_island_list = v]
  /\ InvalidateFilter
  /\ UNCHANGED <<variant, penguin_df, pureVars, display, task>>

\* The user ticks or unticks sex boxes.
SetSex ==
  /\ Loaded /\ LoopFree
  /\ \E v \in SUBSET sex_choices(penguin_df) :
       /\ v # input.selected_sex_list
       /\ input' = [input EXCEPT !.selected_sex_list = v]
  /\ InvalidateFilter
  /\ UNCHANGED <<variant, penguin_df, pureVars, display, task>>

\* The user moves a handle of the mass slider.
SetMass ==
  /\ Loaded /\ LoopFree
  /\ \E v \in SliderRanges(penguin_df) :
       /\ v # input.mass_min_max_range
       /\ input' = [input EXCEPT !.mass_min_max_range = v]
  /\ InvalidateFilter
  /\ UNCHANGED <<variant, penguin_df, pureVars, display, task>>

\* The user selects another attribute: a display parameter, which the calc
\* does not read.
SetAttribute ==
  /\ Loaded /\ LoopFree
  /\ \E a \in Attributes :
       /\ a # input.selected_attribute
       /\ input' = [input EXCEPT !.selected_attribute = a]
  /\ dirty' = dirty \cup ReadsAttribute
  /\ UNCHANGED <<variant, penguin_df, pureVars, calc, display, task>>

\* The flush runs an invalidated output. Its render function calls
\* filtered_data(), which returns its cached value when it is valid and
\* otherwise starts to run.
Render ==
  /\ task.pc = "idle"
  /\ \E o \in dirty :
       IF calc.valid
         THEN /\ display' = [display EXCEPT ![o] = Chart(calc.value, XOf(o, input))]
              /\ dirty' = dirty \ {o}
              /\ UNCHANGED task
         ELSE /\ task' = [Idle EXCEPT !.output = o, !.pc = "species",
                                      !.filtered_df = penguin_df.rows]
              /\ UNCHANGED <<display, dirty>>
  /\ UNCHANGED <<variant, penguin_df, pureVars, input, calc>>

\* selected_species = ...input.selected_species_list(); the species filter.
ReadSpecies ==
  /\ task.pc = "species"
  /\ task' = [task EXCEPT
       !.selected_species = SelectedValues(variant, input.selected_species_list),
       !.filtered_df = FilterColumn(variant, task.filtered_df, "species", input.selected_species_list),
       !.pc = "island"]
  /\ UNCHANGED <<variant, penguin_df, pureVars, input, calc, dirty, display>>

\* selected_island = ...input.selected_island_list(); the island filter.
ReadIsland ==
  /\ task.pc = "island"
  /\ task' = [task EXCEPT
       !.selected_island = SelectedValues(variant, input.selected_island_list),
       !.filtered_df = FilterColumn(variant, task.filtered_df, "island", input.selected_island_list),
       !.pc = "sex"]
  /\ UNCHANGED <<variant, penguin_df, pureVars, input, calc, dirty, display>>

\* selected_sex = ...input.selected_sex_list(); the sex filter.
ReadSex ==
  /\ task.pc = "sex"
  /\ task' = [task EXCEPT
       !.selected_sex = SelectedValues(variant, input.selected_sex_list),
       !.filtered_df = FilterColumn(variant, task.filtered_df, "sex", input.selected_sex_list),
       !.pc = "mass"]
  /\ UNCHANGED <<variant, penguin_df, pureVars, input, calc, dirty, display>>

\* selected_min_mass, selected_max_mass = input.mass_min_max_range(); the
\* mass filter.
ReadMass ==
  /\ task.pc = "mass"
  /\ task' = [task EXCEPT
       !.mass_range = input.mass_min_max_range,
       !.filtered_df = FilterMass(task.filtered_df, input.mass_min_max_range),
       !.pc = "return"]
  /\ UNCHANGED <<variant, penguin_df, pureVars, input, calc, dirty, display>>

\* filtered_data returns, its value is cached, and the output that called it
\* draws its chart from the value.
Return ==
  /\ task.pc = "return"
  /\ LET value == EmptyPolicy(variant, task.filtered_df, penguin_df)
     IN /\ calc' = [kind |-> "calc", valid |-> TRUE, value |-> value]
        /\ display' = [display EXCEPT ![task.output] = Chart(value, XOf(task.output, input))]
  /\ dirty' = dirty \ {task.output}
  /\ task' = Idle
  /\ UNCHANGED <<variant, penguin_df, pureVars, input>>

SessionNext ==
  \/ SetSpecies \/ SetIsland \/ SetSex \/ SetMass \/ SetAttribute
  \/ Render \/ ReadSpecies \/ ReadIsland \/ ReadSex \/ ReadMass \/ Return

SessionSpec == SessionInit /\ [][SessionNext]_vars

(***************************************************************************)
(* What the claims are stated with.                                        *)
(***************************************************************************)
\* The elements of a sequence.
Range(seq) == {seq[i] : i \in DOMAIN seq}

RECURSIVE IsSubseq(_, _)
\* a is b with some elements left out, the others in b's order.
IsSubseq(a, b) ==
  IF a = <<>> THEN TRUE
  ELSE IF b = <<>> THEN FALSE
  ELSE IF Head(a) = Head(b) THEN IsSubseq(Tail(a), Tail(b))
  ELSE IsSubseq(a, Tail(b))

\* v is in the selected set once both sides are lower-cased; a missing value
\* is in no set.
MemberIgnoringCase(v, values) ==
  v # NaNStr /\ \E s \in values : StrLower(s) = StrLower(v)

\* mass_min <= body_mass_g <= mass_max; a missing mass is in no range.
MassWithin(r, sel) ==
  r.body_mass_g # NaN /\ sel.mass[1] <= r.body_mass_g /\ r.body_mass_g <= sel.mass[2]

\* The four predicates of the Filter Engine's contract.
Satisfies(r, sel) ==
  /\ MemberIgnoringCase(r.species, sel.species)
  /\ MemberIgnoringCase(r.island, sel.island)
  /\ MemberIgnoringCase(r.sex, sel.sex)
  /\ MassWithin(r, sel)

\* The species, island and sex predicates.
PassesSets(r, sel) ==
  /\ MemberIgnoringCase(r.species, sel.species)
  /\ MemberIgnoringCase(r.island, sel.island)
  /\ MemberIgnoringCase(r.sex, sel.sex)

\* The records of the dataset that satisfy the four predicates.
Matching == SelectSeq(penguin_df.rows, LAMBDA r : Satisfies(r, selection))

\* filtered_data has been invoked on a Filter Selection.
Filtered == pc # "input" /\ WellFormed(selection)

\* The invocation returned a table.
Returned == Filtered /\ result.kind = "table"

\* C1 as stated: every record of the result of filtered_data satisfies all
\* four predicates (species, island and sex in the selected sets, mass within
\* the range), so no record with a missing sex or mass is in the result.
C1_EveryResultRecordSatisfies ==
  Returned => \A i \in DOMAIN result.rows : Satisfies(result.rows[i], selection)

\* C1 amended: whenever at least one record of the Dataset satisfies all four
\* predicates, every record of the result satisfies all four predicates.
C1_SatisfiesUnlessFallback ==
  (Returned /\ \E i \in DOMAIN penguin_df.rows : Satisfies(penguin_df.rows[i], selection))
  => \A i \in DOMAIN result.rows : Satisfies(result.rows[i], selection)

\* penguins returned a non-empty proper part of a dataset that holds a record
\* with a missing sex whose species and island are selected.
C1_Witness ==
  /\ pc = "filtered"
  /\ Returned
  /\ variant = "penguins"
  /\ Len(result.rows) >= 1
  /\ \E i \in DOMAIN penguin_df.rows :
       /\ penguin_df.rows[i].sex = NaNStr
       /\ MemberIgnoringCase(penguin_df.rows[i].species, selection.species)
       /\ MemberIgnoringCase(penguin_df.rows[i].island, selection.island)
       /\ MassWithin(penguin_df.rows[i], selection)
       /\ penguin_df.rows[i] \notin Range(result.rows)

\* Both invocations, for S1 and for the wider S2, returned a table.
BothReturned == pc = "widened" /\ result.kind = "table" /\ wider_result.kind = "table"

\* C2 as stated (monotonicity): when S2 differs from S1 in one of the three
\* sets, which is a superset in S2, the result for S1 is contained in the
\* result for S2.
C2_Monotone == BothReturned => IsSubseq(result.rows, wider_result.rows)

\* C2 amended: the same, provided at least one record of the Dataset
\* satisfies S1.
C2_MonotoneUnlessFallback ==
  (BothReturned /\ Matching # <<>>) => IsSubseq(result.rows, wider_result.rows)

\* The wider selection let a further record in.
C2_Witness ==
  /\ BothReturned
  /\ Len(result.rows) >= 1
  /\ Len(wider_result.rows) > Len(result.rows)

\* C4 as stated: filtered_data always returns a table, and when an exception
\* is raised while the predicates are evaluated it returns the full Dataset.
C4_NeverRaises ==
  pc # "input" =>
    /\ result.kind = "table"
    /\ FilterBody(variant, penguin_df, selection).kind = "raise" => result = penguin_df

\* C5 as stated (idempotence): the filter completes without error, and
\* applied to its own result under the same selection it completes and
\* returns that result.
C5_Idempotent ==
  Filtered =>
    /\ result.kind = "table"
    /\ pc = "reapplied" => reapplied = result

\* C6 as stated: a record whose species, island and sex equal a selected
\* value once both are lower-cased, and whose mass is in range, passes the
\* filter.
C6_CaseInsensitiveMembership ==
  Filtered =>
    \A i \in DOMAIN penguin_df.rows :
      Satisfies(penguin_df.rows[i], selection) =>
        result.kind = "table" /\ penguin_df.rows[i] \in Range(result.rows)

\* C7 (subset property): the result is a subsequence of the Dataset: only its
\* records, each at most as often, in their original order.
C7_Subsequence == Returned => IsSubseq(result.rows, penguin_df.rows)

\* Two different records were kept.
C7_Witness ==
  /\ pc = "filtered"
  /\ Returned
  /\ Len(result.rows) = 2
  /\ result.rows[1] # result.rows[2]

\* C8 as stated (boundary inclusion): a record that passes the three set
\* predicates and whose mass equals mass_min or mass_max is in the result.
C8_BoundaryInclusion ==
  Filtered =>
    \A i \in DOMAIN penguin_df.rows :
      (/\ PassesSets(penguin_df.rows[i], selection)
       /\ \/ penguin_df.rows[i].body_mass_g = selection.mass[1]
          \/ penguin_df.rows[i].body_mass_g = selection.mass[2])
      => result.kind = "table" /\ penguin_df.rows[i] \in Range(result.rows)

\* C10 as stated: when some record satisfies the four predicates the result
\* is exactly the satisfying records; when none does, penguins returns the
\* whole Dataset and root an empty table.
C10_EmptyPolicy ==
  Filtered =>
    IF Matching # <<>> THEN result = Table(Matching)
    ELSE IF variant = "penguins" THEN result = penguin_df
    ELSE result.kind = "table" /\ IsEmpty(result)

\* The flush is complete: no output is invalidated and no code runs.
Flushed == pc = "session" /\ dirty = {} /\ task.pc = "idle"

\* The outputs that chart the Filtered Dataset: those whose render function
\* is given filtered_data() (penguins) or filtered_df (root) as its data.
FilteredCharts ==
  IF variant = "penguins" THEN Outputs
  ELSE {"plot2", "plotly_scatterplot", "seaborn_histogram"}

\* C3 as stated: once the recomputation pass has run, every chart of the
\* Filtered Dataset shows filtered_data applied to the current selection.
C3_ChartsShowCurrentFilter ==
  Flushed =>
    \A o \in FilteredCharts :
      /\ display[o].kind = "chart"
      /\ display[o].data = filtered_data(variant, penguin_df, SelectionOf(input))

\* The reads of the selection that the running invocation has made.
ReadsDone ==
  [species |-> task.pc \in {"island", "sex", "mass", "return"},
   island |-> task.pc \in {"sex", "mass", "return"},
   sex |-> task.pc \in {"mass", "return"},
   mass |-> task.pc \in {"return"}]

\* C9: while an invocation of filtered_data runs, every selection value it
\* has read is the value the UI state holds now: the reads are of one
\* snapshot, and no update of the user came between them.
C9_ReadsOfOneSnapshot ==
  pc = "session" =>
    /\ ReadsDone.species =>
         task.selected_species = SelectedValues(variant, input.selected_species_list)
    /\ ReadsDone.island =>
         task.selected_island = SelectedValues(variant, input.selected_island_list)
    /\ ReadsDone.sex =>
         task.selected_sex = SelectedValues(variant, input.selected_sex_list)
    /\ ReadsDone.mass => task.mass_range = input.mass_min_max_range

\* An invocation has read all four values of a selection that the user has
\* changed in every field since the session began.
C9_Witness ==
  /\ pc = "session"
  /\ task.pc = "return"
  /\ input.selected_species_list # DefaultInput(variant, penguin_df).selected_species_list
  /\ input.selected_island_list # DefaultInput(variant, penguin_df).selected_island_list
  /\ input.selected_sex_list # DefaultInput(variant, penguin_df).selected_sex_list
  /\ input.mass_min_max_range # DefaultInput(variant, penguin_df).mass_min_max_range

====
